---------------------------- MODULE Spec2Model ----------------------------
(***************************************************************************)
(* Model of the AI 24h Radar page (src/src/app/page.tsx) and of its        *)
(* BriefCard client component (src/unnamed/part_000).                      *)
(*                                                                         *)
(* Conventions                                                             *)
(*  - A JavaScript string is a sequence of tokens.  A token is a tag       *)
(*    ("<item>", "</title>", ...), a CDATA bracket, one blank, or a word.  *)
(*    The empty string is <<>>.  The regular expressions of the source are *)
(*    evaluated over tokens with the lazy, left-to-right, non-overlapping  *)
(*    semantics they have over characters.                                 *)
(*  - A JavaScript number is a record: an exact rational, NaN or an        *)
(*    infinity; null is a record of its own kind (see JsNull).             *)
(*  - The non-ASCII string literals of the source are written in ASCII:    *)
(*    "(no title)" for the untitled default, "- no data available" for the *)
(*    empty-section placeholder, "copied"/"copy" for the button labels.    *)
(***************************************************************************)
EXTENDS Integers, Sequences, FiniteSets, TLC

VARIABLES
  nFeed,      \* news: the chunks of the RSS body the server holds
  nRes,       \* news: the outcome of the HTTP call, "none" before the call,
              \* "responded" while res.text() is awaited
  nNow,       \* news: Date.now() read by the call
  nPromise,   \* news: the promise fetchGoogleNews returned
  sBody,      \* stock: the JSON body the quote server holds
  sArg,       \* stock: the STOCKS entry the call is made for
  sRes,       \* stock: the outcome of the HTTP call, "none" before the call,
              \* "responded" while res.json() is awaited
  sPromise,   \* stock: the promise fetchStock returned
  bSections,  \* brief: the sections handed to buildBrief
  bStocks,    \* brief: the stocks handed to buildBrief
  bLines,     \* brief: the lines buildBrief joined, <<>> before the call
  gItems,     \* score: the item list handed to signalScore
  gScore,     \* score: what signalScore returned for gItems
  cCopied,    \* BriefCard: the state `copied`
  cWrites,    \* BriefCard: clipboard writes that have not settled yet
  cTimers,    \* BriefCard: reset timers that have not fired yet
  cClicks,    \* BriefCard: clicks made so far
  cLast,      \* BriefCard: the last thing that happened
  hNews,      \* Home: per NEWS_QUERIES entry, the promise of its section
  hStocks,    \* Home: per STOCKS entry, the promise of its quote
  hSections,  \* Home: the Promise.all of fetchNewsSections
  hQuotes,    \* Home: the Promise.all of fetchStocks
  hHome,      \* Home: the Promise.all of line 189
  hBrief      \* Home: the brief of line 191, <<>> before it is built

newsVars == <<nFeed, nRes, nNow, nPromise>>
stockVars == <<sBody, sArg, sRes, sPromise>>
briefVars == <<bSections, bStocks, bLines>>
scoreVars == <<gItems, gScore>>
copyVars == <<cCopied, cWrites, cTimers, cClicks, cLast>>
homeVars == <<hNews, hStocks, hSections, hQuotes, hHome, hBrief>>
vars == <<newsVars, stockVars, briefVars, scoreVars, copyVars, homeVars>>
notCopyVars == <<newsVars, stockVars, briefVars, scoreVars, homeVars>>

(***************************************************************************)
(* Bounds of the model.                                                    *)
(***************************************************************************)
MaxBlocks == 7
MaxCloses == 3
MaxSections == 2
MaxSectionItems == 4
MaxBriefStocks == 2
MaxScoreItems == 7
MaxSources == 4
MaxClicks == 5
MaxFlakyNews == 1
MaxFlakyStocks == 1

(***************************************************************************)
(* Program constants.                                                      *)
(***************************************************************************)
ONE_DAY_MS == 24 * 60 * 60 * 1000
MaxNewsItems == 6
TitleDefault == <<"(no title)">>
LinkDefault == <<"#">>
SourceDefault == <<"Google News">>

(***************************************************************************)
(* Small helpers on sequences.                                             *)
(***************************************************************************)
Min(S) == CHOOSE m \in S : \A k \in S : m <= k

IndexFrom(tok, s, pos) ==
  LET hits == {k \in pos..Len(s) : s[k] = tok}
  IN IF hits = {} THEN 0 ELSE Min(hits)

RECURSIVE Flatten(_)
Flatten(ss) == IF ss = <<>> THEN <<>> ELSE Head(ss) \o Flatten(Tail(ss))

(***************************************************************************)
(* Promises.                                                               *)
(***************************************************************************)
Pending == [state |-> "pending", value |-> <<>>]
Fulfilled(v) == [state |-> "fulfilled", value |-> v]
Rejected == [state |-> "rejected", value |-> <<>>]

(***************************************************************************)
(* Regular expressions /<open>[\s\S]*?<close>/g: every match, scanning     *)
(* left to right; a match runs from an opening tag to the first closing    *)
(* tag after it, and the scan resumes after the match.                     *)
(***************************************************************************)
OpenTag(tag) == "<" \o tag \o ">"
CloseTag(tag) == "</" \o tag \o ">"

RECURSIVE MatchFrom(_, _, _)
MatchFrom(tag, s, pos) ==
  LET i == IndexFrom(OpenTag(tag), s, pos)
      j == IF i = 0 THEN 0 ELSE IndexFrom(CloseTag(tag), s, i + 1)
  IN IF j = 0 THEN <<>>
     ELSE <<SubSeq(s, i, j)>> \o MatchFrom(tag, s, j + 1)

MatchAll(tag, s) == MatchFrom(tag, s, 1)

\* the capture group ([\s\S]*?) of a match: what lies between the two tags
Group1(m) == SubSeq(m, 2, Len(m) - 1)

(***************************************************************************)
(* stripCData: the first "<![CDATA[" and the first "]]>" removed, then     *)
(* trim().                                                                 *)
(***************************************************************************)
RemoveFirst(tok, s) ==
  LET i == IndexFrom(tok, s, 1)
  IN IF i = 0 THEN s ELSE SubSeq(s, 1, i - 1) \o SubSeq(s, i + 1, Len(s))

RECURSIVE Trim(_)
Trim(s) ==
  IF s = <<>> THEN s
  ELSE IF Head(s) = " " THEN Trim(Tail(s))
  ELSE IF s[Len(s)] = " " THEN Trim(SubSeq(s, 1, Len(s) - 1))
  ELSE s

stripCData(input) == Trim(RemoveFirst("]]>", RemoveFirst("<![CDATA[", input)))

findAll(tag, xml) ==
  LET ms == MatchAll(tag, xml)
  IN [k \in 1..Len(ms) |-> stripCData(Group1(ms[k]))]

\* findAll(...)[0] || dflt: an absent first element and the empty string
\* are both falsy
FirstOr(results, dflt) ==
  IF Len(results) = 0 \/ results[1] = <<>> THEN dflt ELSE results[1]

(***************************************************************************)
(* Date.parse: the date strings the model knows and their epoch            *)
(* milliseconds; anything else, the empty string included, is NaN.         *)
(***************************************************************************)
DateOld == "Thu, 01 Jan 1970 00:00:00 GMT"
DateEdge == "Fri, 02 Jan 1970 00:00:00 GMT"

NaNTime == [nan |-> TRUE, ms |-> 0]
Time(ms) == [nan |-> FALSE, ms |-> ms]

DateParse(s) ==
  IF s = <<DateOld>> THEN Time(0)
  ELSE IF s = <<DateEdge>> THEN Time(ONE_DAY_MS)
  ELSE NaNTime

\* the values Date.now() takes: two days after the epoch, and 1 ms later
Nows == {2 * ONE_DAY_MS, 2 * ONE_DAY_MS + 1}

(***************************************************************************)
(* fetchGoogleNews, lines 79-96: the item loop.                            *)
(***************************************************************************)
NewsItemOf(block) ==
  [title |-> FirstOr(findAll("title", block), TitleDefault),
   link |-> FirstOr(findAll("link", block), LinkDefault),
   source |-> FirstOr(findAll("source", block), SourceDefault),
   publishedAt |-> FirstOr(findAll("pubDate", block), <<>>)]

\* mutant of IsStale: the subtraction reversed
IsStale_Reversed(pubDate, now) ==
  LET ts == DateParse(pubDate)
  IN ~ts.nan /\ ts.ms - now > ONE_DAY_MS

\* line 90: the block is skipped
IsStale(pubDate, now) ==
  LET ts == DateParse(pubDate)
  IN ~ts.nan /\ now - ts.ms > ONE_DAY_MS

\* mutant of ItemLoop: the cap tested with > instead of >=
RECURSIVE ItemLoop_OffByOne(_, _, _, _)
ItemLoop_OffByOne(blocks, k, now, items) ==
  IF k > Len(blocks) THEN items
  ELSE LET item == NewsItemOf(blocks[k])
       IN IF IsStale(item.publishedAt, now)
          THEN ItemLoop_OffByOne(blocks, k + 1, now, items)
          ELSE LET pushed == Append(items, item)
               IN IF Len(pushed) > MaxNewsItems THEN pushed
                  ELSE ItemLoop_OffByOne(blocks, k + 1, now, pushed)

RECURSIVE ItemLoop(_, _, _, _)
ItemLoop(blocks, k, now, items) ==
  IF k > Len(blocks) THEN items
  ELSE LET item == NewsItemOf(blocks[k])
       IN IF IsStale(item.publishedAt, now)
          THEN ItemLoop(blocks, k + 1, now, items)
          ELSE LET pushed == Append(items, item)
               IN IF Len(pushed) >= MaxNewsItems THEN pushed
                  ELSE ItemLoop(blocks, k + 1, now, pushed)

ParseFeed(xml, now) == ItemLoop(MatchAll("item", xml), 1, now, <<>>)

(***************************************************************************)
(* The HTTP call of fetchGoogleNews.  A response says whether fetch()      *)
(* rejected, whether res.ok, whether res.text() rejected, and the body.    *)
(***************************************************************************)
NewsOutcomes == {"ok", "notOk", "netErr", "textErr"}

Threw == [threw |-> TRUE, value |-> <<>>]
Returned(v) == [threw |-> FALSE, value |-> v]

\* the try block, lines 75-96
NewsTry(outcome, xml, now) ==
  IF outcome = "netErr" THEN Threw
  ELSE IF outcome = "notOk" THEN Returned(<<>>)
  ELSE IF outcome = "textErr" THEN Threw
  ELSE Returned(ParseFeed(xml, now))

\* mutant of fetchGoogleNews: no catch, an exception rejects the promise
fetchGoogleNews_NoCatch(outcome, xml, now) ==
  LET r == NewsTry(outcome, xml, now)
  IN IF r.threw THEN Rejected ELSE Fulfilled(r.value)

\* try / catch, lines 74-99
fetchGoogleNews(outcome, xml, now) ==
  LET r == NewsTry(outcome, xml, now)
  IN IF r.threw THEN Fulfilled(<<>>) ELSE Fulfilled(r.value)

(***************************************************************************)
(* The RSS bodies of the model.  A body is a sequence of chunks; chunk i   *)
(* carries the words "t<i>", "l<i>" so that items can be told apart.       *)
(*   old   a complete item published two days before the earlier now       *)
(*   edge  a complete item published exactly ONE_DAY_MS before the earlier *)
(*         now; its title sits in CDATA brackets with blanks around it     *)
(*   bare  <item></item>: no title, link, pubDate or source                *)
(*   torn  an <item> that is never closed: the body is not well-formed     *)
(***************************************************************************)
ChunkKinds == {"old", "edge", "bare", "torn"}

Word(prefix, i) == prefix \o ToString(i)

Chunk(kind, i) ==
  IF kind = "old" THEN
    <<"<item>", "<title>", Word("t", i), "</title>",
      "<link>", Word("l", i), "</link>",
      "<pubDate>", DateOld, "</pubDate>",
      "<source>", Word("s", i % 2), "</source>", "</item>">>
  ELSE IF kind = "edge" THEN
    <<"<item>", "<title>", "<![CDATA[", " ", Word("t", i), " ", "]]>", "</title>",
      "<link>", Word("l", i), "</link>",
      "<pubDate>", DateEdge, "</pubDate>",
      "<source>", Word("s", i % 2), "</source>", "</item>">>
  ELSE IF kind = "bare" THEN <<"<item>", "</item>">>
  ELSE <<"<item>", "junk">>

FeedXml(feed) == Flatten([i \in 1..Len(feed) |-> Chunk(feed[i], i)])

Feeds == UNION {[1..n -> ChunkKinds] : n \in 0..MaxBlocks}

(***************************************************************************)
(* JavaScript numbers and null.  A finite number is the exact rational     *)
(* num/den in lowest terms with den > 0 (the rounding of IEEE doubles is   *)
(* not modelled); division follows IEEE 754 at zero: x/0 is an infinity    *)
(* of the sign of x, and 0/0 is NaN.                                       *)
(***************************************************************************)
JsNull == [kind |-> "null", num |-> 0, den |-> 1]
JsNaN == [kind |-> "NaN", num |-> 0, den |-> 1]
JsInfinity(sign) == [kind |-> "Infinity", num |-> sign, den |-> 1]

Abs(n) == IF n < 0 THEN -n ELSE n
Sign(n) == IF n < 0 THEN -1 ELSE IF n > 0 THEN 1 ELSE 0

RECURSIVE Gcd(_, _)
Gcd(a, b) == IF b = 0 THEN a ELSE Gcd(b, a % b)

Rat(n, d) ==
  LET g == Gcd(Abs(n), Abs(d))
  IN [kind |-> "finite", num |-> Sign(d) * (n \div g), den |-> Abs(d) \div g]

Num(n) == Rat(n, 1)

\* typeof n: NaN and the infinities are numbers too
TypeOf(n) == IF n.kind = "null" THEN "object" ELSE "number"

JsSub(a, b) ==
  IF a.kind = "NaN" \/ b.kind = "NaN" THEN JsNaN
  ELSE IF a.kind = "Infinity" /\ b.kind = "Infinity"
    THEN IF a.num = b.num THEN JsNaN ELSE a
  ELSE IF a.kind = "Infinity" THEN a
  ELSE IF b.kind = "Infinity" THEN JsInfinity(-b.num)
  ELSE Rat(a.num * b.den - b.num * a.den, a.den * b.den)

JsDiv(a, b) ==
  IF a.kind = "NaN" \/ b.kind = "NaN" THEN JsNaN
  ELSE IF a.kind = "Infinity"
    THEN IF b.kind = "Infinity" THEN JsNaN
         ELSE JsInfinity(IF b.num < 0 THEN -a.num ELSE a.num)
  ELSE IF b.kind = "Infinity" THEN Num(0)
  ELSE IF b.num = 0
    THEN IF a.num = 0 THEN JsNaN ELSE JsInfinity(Sign(a.num))
  ELSE Rat(a.num * b.den, a.den * b.num)

JsMul(a, b) ==
  IF a.kind = "NaN" \/ b.kind = "NaN" THEN JsNaN
  ELSE IF a.kind = "Infinity" \/ b.kind = "Infinity"
    THEN IF a.num = 0 \/ b.num = 0 THEN JsNaN
         ELSE JsInfinity(Sign(a.num) * Sign(b.num))
  ELSE Rat(a.num * b.num, a.den * b.den)

(***************************************************************************)
(* The watchlist, lines 38-47 (the Chinese company names in English).      *)
(***************************************************************************)
STOCKS ==
  << [symbol |-> "NVDA", name |-> "NVIDIA", currency |-> "USD"],
     [symbol |-> "MSFT", name |-> "Microsoft", currency |-> "USD"],
     [symbol |-> "GOOGL", name |-> "Alphabet", currency |-> "USD"],
     [symbol |-> "002230.SZ", name |-> "iFLYTEK", currency |-> "CNY"],
     [symbol |-> "300308.SZ", name |-> "Zhongji Innolight", currency |-> "CNY"],
     [symbol |-> "688111.SH", name |-> "Kingsoft Office", currency |-> "CNY"],
     [symbol |-> "600570.SH", name |-> "Hundsun", currency |-> "CNY"],
     [symbol |-> "002415.SZ", name |-> "Hikvision", currency |-> "CNY"] >>

(***************************************************************************)
(* fetchStock, lines 112-134.                                              *)
(***************************************************************************)
StockItem(symbol, name, currency, price, previousClose, changePct) ==
  [symbol |-> symbol, name |-> name, currency |-> currency,
   price |-> price, previousClose |-> previousClose, changePct |-> changePct]

NoQuote(symbol, name, currency) ==
  StockItem(symbol, name, currency, JsNull, JsNull, JsNull)

\* mutant of QuoteOf: the previous close taken from the front of the series
QuoteOf_FirstClose(closes, symbol, name, currency) ==
  IF Len(closes) < 2 THEN NoQuote(symbol, name, currency)
  ELSE LET previousClose == closes[1]
           price == closes[Len(closes)]
           changePct == JsMul(JsDiv(JsSub(price, previousClose), previousClose),
                              Num(100))
       IN StockItem(symbol, name, currency, price, previousClose, changePct)

\* mutant of QuoteOf: a lone close is reported as the price
QuoteOf_LonePrice(closes, symbol, name, currency) ==
  IF Len(closes) = 0 THEN NoQuote(symbol, name, currency)
  ELSE IF Len(closes) < 2
    THEN StockItem(symbol, name, currency, closes[1], JsNull, JsNull)
  ELSE LET previousClose == closes[Len(closes) - 1]
           price == closes[Len(closes)]
           changePct == JsMul(JsDiv(JsSub(price, previousClose), previousClose),
                              Num(100))
       IN StockItem(symbol, name, currency, price, previousClose, changePct)

\* lines 124-130
QuoteOf(closes, symbol, name, currency) ==
  IF Len(closes) < 2 THEN NoQuote(symbol, name, currency)
  ELSE LET previousClose == closes[Len(closes) - 1]
           price == closes[Len(closes)]
           changePct == JsMul(JsDiv(JsSub(price, previousClose), previousClose),
                              Num(100))
       IN StockItem(symbol, name, currency, price, previousClose, changePct)

(***************************************************************************)
(* The JSON body of the quote server.  Its shape says how far the chain    *)
(* json?.chart?.result?.[0]?.indicators?.quote?.[0]?.close reaches:        *)
(*   noResult       the chain ends in undefined                            *)
(*   closeNull      close is null                                          *)
(*   closeNotArray  close is a value without a filter method               *)
(*   full           close is an array of numbers and nulls                 *)
(***************************************************************************)
StockOutcomes == {"ok", "notOk", "netErr", "jsonErr"}
BodyShapes == {"noResult", "closeNull", "closeNotArray", "full"}

\* lines 120-122: optional chaining, filter, || []
ClosesOf(body) ==
  IF body.shape = "full"
  THEN SelectSeq(body.close, LAMBDA n : TypeOf(n) = "number")
  ELSE <<>>

\* the try block, lines 116-130
StockTry(outcome, body, symbol, name, currency) ==
  IF outcome = "netErr" THEN Threw
  ELSE IF outcome = "notOk" THEN Returned(NoQuote(symbol, name, currency))
  ELSE IF outcome = "jsonErr" THEN Threw
  ELSE IF body.shape = "closeNotArray" THEN Threw
  ELSE Returned(QuoteOf(ClosesOf(body), symbol, name, currency))

\* try / catch, lines 115-133
fetchStock(outcome, body, symbol, name, currency) ==
  LET r == StockTry(outcome, body, symbol, name, currency)
  IN IF r.threw THEN Fulfilled(NoQuote(symbol, name, currency))
     ELSE Fulfilled(r.value)

(***************************************************************************)
(* The bodies of the model: close series of at most MaxCloses entries,     *)
(* each null or one of the prices 0, 1, 3.                                 *)
(***************************************************************************)
CloseEntries == {JsNull, Num(0), Num(1), Num(3)}

StockBodies ==
  {[shape |-> sh, close |-> <<>>] : sh \in BodyShapes \ {"full"}}
    \cup {[shape |-> "full", close |-> c] :
            c \in UNION {[1..n -> CloseEntries] : n \in 0..MaxCloses}}

(***************************************************************************)
(* The topic queries, lines 28-36 (the Chinese titles in English).         *)
(***************************************************************************)
NEWS_QUERIES ==
  << [title |-> "Tech breakthroughs", query |-> "AI breakthrough"],
     [title |-> "Product paradigms", query |-> "AI product launch"],
     [title |-> "Big tech moves",
      query |-> "OpenAI Google Microsoft Meta Baidu Alibaba AI"],
     [title |-> "Agentic AI", query |-> "AI agents agentic"],
     [title |-> "Inference cost and token economics",
      query |-> "LLM inference cost token economics"],
     [title |-> "AI-UX", query |-> "AI UX design"],
     [title |-> "Business ROI", query |-> "AI ROI enterprise"] >>

(***************************************************************************)
(* Promise.all over n promises: the values are stored by the index of the  *)
(* promise, whatever the order in which the promises settle; the first     *)
(* rejection rejects it, and the last fulfilment fulfils it.               *)
(***************************************************************************)
Hole == [hole |-> TRUE]

AllOf(n) ==
  [state |-> "pending", values |-> [i \in 1..n |-> Hole], remaining |-> n]

\* mutant of ElementSettles: the value is stored at the first free index
ElementSettles_InArrivalOrder(all, i, p) ==
  IF all.state # "pending" THEN all
  ELSE IF p.state = "rejected" THEN [all EXCEPT !.state = "rejected"]
  ELSE LET free == Min({k \in 1..Len(all.values) : all.values[k] = Hole})
           values == [all.values EXCEPT ![free] = p.value]
           remaining == all.remaining - 1
       IN [state |-> IF remaining = 0 THEN "fulfilled" ELSE "pending",
           values |-> values, remaining |-> remaining]

ElementSettles(all, i, p) ==
  IF all.state # "pending" THEN all
  ELSE IF p.state = "rejected" THEN [all EXCEPT !.state = "rejected"]
  ELSE LET values == [all.values EXCEPT ![i] = p.value]
           remaining == all.remaining - 1
       IN [state |-> IF remaining = 0 THEN "fulfilled" ELSE "pending",
           values |-> values, remaining |-> remaining]

\* the promise an aggregate is, seen from the outside
PromiseOf(all) ==
  IF all.state = "fulfilled" THEN Fulfilled(all.values)
  ELSE IF all.state = "rejected" THEN Rejected
  ELSE Pending

NoTask == [promise |-> Pending, reply |-> "none"]

HomeIdle ==
  /\ hNews = [i \in 1..Len(NEWS_QUERIES) |-> NoTask]
  /\ hStocks = [j \in 1..Len(STOCKS) |-> NoTask]
  /\ hSections = AllOf(Len(NEWS_QUERIES))
  /\ hQuotes = AllOf(Len(STOCKS))
  /\ hHome = AllOf(2)
  /\ hBrief = <<>>

(***************************************************************************)
(* One call of fetchStock.                                                 *)
(***************************************************************************)
NewsIdle ==
  /\ nFeed = <<>>
  /\ nRes = "none"
  /\ nNow = 0
  /\ nPromise = Pending

StockIdle ==
  /\ sBody = [shape |-> "noResult", close |-> <<>>]
  /\ sArg = 1
  /\ sRes = "none"
  /\ sPromise = Pending

BriefIdle ==
  /\ bSections = <<>>
  /\ bStocks = <<>>
  /\ bLines = <<>>

ScoreIdle ==
  /\ gItems = <<>>
  /\ gScore = 0

CopyIdle ==
  /\ cCopied = FALSE
  /\ cWrites = 0
  /\ cTimers = 0
  /\ cClicks = 0
  /\ cLast = "none"

InitStock ==
  /\ sBody \in StockBodies
  /\ sArg \in 1..Len(STOCKS)
  /\ sRes = "none"
  /\ sPromise = Pending
  /\ NewsIdle /\ BriefIdle /\ ScoreIdle /\ CopyIdle /\ HomeIdle

\* line 116: the fetch rejects, or line 117: the response is not ok
StockFetchFails ==
  /\ sRes = "none"
  /\ \E outcome \in {"netErr", "notOk"} :
       /\ sRes' = outcome
       /\ sPromise' = fetchStock(outcome, sBody, STOCKS[sArg].symbol,
                                 STOCKS[sArg].name, STOCKS[sArg].currency)
  /\ UNCHANGED <<sBody, sArg, newsVars, briefVars, scoreVars, copyVars, homeVars>>

\* lines 116-119: the response is ok, the call awaits res.json()
StockResponds ==
  /\ sRes = "none"
  /\ sRes' = "responded"
  /\ UNCHANGED <<sBody, sArg, sPromise, newsVars, briefVars, scoreVars,
                 copyVars, homeVars>>

\* lines 119-133: res.json() settles and the call runs to its return
StockJsonSettles ==
  /\ sRes = "responded"
  /\ \E outcome \in {"ok", "jsonErr"} :
       /\ sRes' = outcome
       /\ sPromise' = fetchStock(outcome, sBody, STOCKS[sArg].symbol,
                                 STOCKS[sArg].name, STOCKS[sArg].currency)
  /\ UNCHANGED <<sBody, sArg, newsVars, briefVars, scoreVars, copyVars, homeVars>>

NextStock == StockFetchFails \/ StockResponds \/ StockJsonSettles

SpecStock == InitStock /\ [][NextStock]_vars

(***************************************************************************)
(* One call of fetchGoogleNews.                                            *)
(***************************************************************************)
InitNews ==
  /\ nFeed \in Feeds
  /\ nRes = "none"
  /\ nNow = 0
  /\ nPromise = Pending
  /\ StockIdle /\ BriefIdle /\ ScoreIdle /\ CopyIdle /\ HomeIdle

\* line 75: the fetch rejects, or line 76: the response is not ok
NewsFetchFails ==
  /\ nRes = "none"
  /\ \E outcome \in {"netErr", "notOk"} :
       /\ nRes' = outcome
       /\ nPromise' = fetchGoogleNews(outcome, FeedXml(nFeed), nNow)
  /\ UNCHANGED <<nFeed, nNow, stockVars, briefVars, scoreVars, copyVars, homeVars>>

\* lines 75-78: the response is ok, the call awaits res.text()
NewsResponds ==
  /\ nRes = "none"
  /\ nRes' = "responded"
  /\ UNCHANGED <<nFeed, nNow, nPromise, stockVars, briefVars, scoreVars,
                 copyVars, homeVars>>

\* line 78: res.text() rejects
NewsTextFails ==
  /\ nRes = "responded"
  /\ nRes' = "textErr"
  /\ nPromise' = fetchGoogleNews("textErr", FeedXml(nFeed), nNow)
  /\ UNCHANGED <<nFeed, nNow, stockVars, briefVars, scoreVars, copyVars, homeVars>>

\* lines 78-96: res.text() resolves, the call reads the clock and runs to
\* its return
NewsTextResolves ==
  /\ nRes = "responded"
  /\ \E now \in Nows :
       /\ nRes' = "ok"
       /\ nNow' = now
       /\ nPromise' = fetchGoogleNews("ok", FeedXml(nFeed), now)
  /\ UNCHANGED <<nFeed, stockVars, briefVars, scoreVars, copyVars, homeVars>>

NextNews ==
  NewsFetchFails \/ NewsResponds \/ NewsTextFails \/ NewsTextResolves

SpecNews == InitNews /\ [][NextNews]_vars

(***************************************************************************)
(* Number.prototype.toFixed(2): NaN and the infinities print by name; a    *)
(* finite number prints its magnitude rounded to hundredths (a tie goes    *)
(* up), after a "-" when the number is negative.                           *)
(***************************************************************************)
TwoDigits(n) == IF n < 10 THEN "0" \o ToString(n) ELSE ToString(n)

toFixed2(x) ==
  IF x.kind = "NaN" THEN "NaN"
  ELSE IF x.kind = "Infinity"
    THEN IF x.num > 0 THEN "Infinity" ELSE "-Infinity"
  ELSE LET hundredths == (Abs(x.num) * 200 + x.den) \div (2 * x.den)
       IN (IF x.num < 0 THEN "-" ELSE "")
            \o ToString(hundredths \div 100) \o "."
            \o TwoDigits(hundredths % 100)

\* pct > 0: false for NaN
IsPositive(x) == x.kind \in {"finite", "Infinity"} /\ x.num > 0

\* lines 147-151
fmtPct(pct) ==
  IF pct = JsNull THEN "--"
  ELSE (IF IsPositive(pct) THEN "+" ELSE "") \o toFixed2(pct) \o "%"

\* lines 153-156; "Y" stands for the yen sign of the source
fmtPrice(price, currency) ==
  IF price = JsNull THEN "--"
  ELSE (IF currency = "USD" THEN "$" ELSE "Y") \o toFixed2(price)

(***************************************************************************)
(* signalScore, lines 158-162.                                             *)
(***************************************************************************)
\* mutant of signalScore: Math.min(100, ...) left out
signalScore_NoCap(items) ==
  IF Len(items) = 0 THEN 0
  ELSE LET uniqueSources == Cardinality({items[i].source : i \in 1..Len(items)})
       IN Len(items) * 12 + uniqueSources * 8

signalScore(items) ==
  IF Len(items) = 0 THEN 0
  ELSE LET uniqueSources == Cardinality({items[i].source : i \in 1..Len(items)})
           raw == Len(items) * 12 + uniqueSources * 8
       IN IF raw < 100 THEN raw ELSE 100

(***************************************************************************)
(* buildBrief, lines 164-186.  The brief is the sequence of its lines (the *)
(* argument of join); a line is a sequence of tokens.  clock is the        *)
(* formatted time of line 167.                                             *)
(***************************************************************************)
BriefTitle == <<"# AI 24h brief">>
StocksHeading == <<"## Stocks 24h change">>
NewsHeading == <<"## Key news">>
Placeholder == <<"- no data available">>

StockLine(s) ==
  <<"- ", s.name, " (", s.symbol, "): ", fmtPrice(s.price, s.currency),
    " / ", fmtPct(s.changePct)>>

ItemLine(n) == <<"- ">> \o n.title \o <<" (">> \o n.source \o <<")">>

\* mutant of TopOf: slice(0, 4)
TopOf_Four(items) == SubSeq(items, 1, IF Len(items) < 4 THEN Len(items) ELSE 4)

\* line 177: section.items.slice(0, 3)
TopOf(items) == SubSeq(items, 1, IF Len(items) < 3 THEN Len(items) ELSE 3)

\* lines 176-183
SectionLines(section) ==
  LET top == TopOf(section.items)
  IN <<(<<"### ", section.title>>)>>
       \o (IF Len(top) = 0 THEN <<Placeholder>>
           ELSE [k \in 1..Len(top) |-> ItemLine(top[k])])
       \o << <<>> >>

buildBrief(sections, stocks, clock) ==
  <<BriefTitle, <<"- time: ", clock>>, <<>>, StocksHeading>>
    \o [j \in 1..Len(stocks) |-> StockLine(stocks[j])]
    \o << <<>>, NewsHeading >>
    \o Flatten([i \in 1..Len(sections) |-> SectionLines(sections[i])])

(***************************************************************************)
(* The inputs of buildBrief in the model: at most MaxSections sections of  *)
(* at most MaxSectionItems items, item k of section m titled "t<10m+k>",   *)
(* and at most MaxBriefStocks stocks, each without a quote, with a finite  *)
(* change or with an infinite one.                                         *)
(***************************************************************************)
BriefItem(m, k) ==
  [title |-> <<Word("t", 10 * m + k)>>, link |-> <<"#">>,
   source |-> <<Word("s", k % 2)>>, publishedAt |-> <<>>]

BriefSection(m, n) ==
  [title |-> Word("section ", m), query |-> Word("query ", m),
   items |-> [k \in 1..n |-> BriefItem(m, k)]]

BriefSectionLists ==
  UNION {{[m \in 1..len |-> BriefSection(m, counts[m])] :
            counts \in [1..len -> 0..MaxSectionItems]} : len \in 0..MaxSections}

BriefStockChoices ==
  {NoQuote("NVDA", "NVIDIA", "USD"),
   QuoteOf(<<Num(3), Num(1)>>, "MSFT", "Microsoft", "USD"),
   QuoteOf(<<Num(0), Num(3)>>, "002230.SZ", "iFLYTEK", "CNY")}

BriefStockLists == UNION {[1..n -> BriefStockChoices] : n \in 0..MaxBriefStocks}

Clocks == {"1970/1/3 08:00:00"}

InitBrief ==
  /\ bSections \in BriefSectionLists
  /\ bStocks \in BriefStockLists
  /\ bLines = <<>>
  /\ NewsIdle /\ StockIdle /\ ScoreIdle /\ CopyIdle /\ HomeIdle

BuildBrief ==
  /\ bLines = <<>>
  /\ \E clock \in Clocks : bLines' = buildBrief(bSections, bStocks, clock)
  /\ UNCHANGED <<bSections, bStocks, newsVars, stockVars, scoreVars, copyVars, homeVars>>

NextBrief == BuildBrief

SpecBrief == InitBrief /\ [][NextBrief]_vars

(***************************************************************************)
(* signalScore applied to a list that grows by one item at a time.         *)
(***************************************************************************)
ScoreSources == {<<Word("s", k)>> : k \in 1..MaxSources}

ScoreItem(src) ==
  [title |-> <<"t">>, link |-> <<"#">>, source |-> src, publishedAt |-> <<>>]

InitScore ==
  /\ gItems = <<>>
  /\ gScore = signalScore(<<>>)
  /\ NewsIdle /\ StockIdle /\ BriefIdle /\ CopyIdle /\ HomeIdle

ScoreAppend ==
  /\ Len(gItems) < MaxScoreItems
  /\ \E src \in ScoreSources :
       /\ gItems' = Append(gItems, ScoreItem(src))
       /\ gScore' = signalScore(gItems')
  /\ UNCHANGED <<newsVars, stockVars, briefVars, copyVars, homeVars>>

NextScore == ScoreAppend

SpecScore == InitScore /\ [][NextScore]_vars

(***************************************************************************)
(* BriefCard, part_000 lines 9-20.  A click starts a clipboard write; the  *)
(* write settles later, and other clicks, settlements and timers may come  *)
(* in between.  A timer set by line 16 fires once.                         *)
(***************************************************************************)
InitCopy ==
  /\ cCopied = FALSE
  /\ cWrites = 0
  /\ cTimers = 0
  /\ cClicks = 0
  /\ cLast = "none"
  /\ NewsIdle /\ StockIdle /\ BriefIdle /\ ScoreIdle /\ HomeIdle

\* onClick={onCopy}, up to the await of line 14
CopyClick ==
  /\ cClicks < MaxClicks
  /\ cClicks' = cClicks + 1
  /\ cWrites' = cWrites + 1
  /\ cLast' = "click"
  /\ UNCHANGED <<cCopied, cTimers, notCopyVars>>

\* mutant of WriteResolves: the reset timer of line 16 is not set
WriteResolves_NoTimer ==
  /\ cWrites > 0
  /\ cWrites' = cWrites - 1
  /\ cCopied' = TRUE
  /\ cLast' = "writeOk"
  /\ UNCHANGED <<cTimers, cClicks, notCopyVars>>

\* lines 15-16: writeText resolved
WriteResolves ==
  /\ cWrites > 0
  /\ cWrites' = cWrites - 1
  /\ cCopied' = TRUE
  /\ cTimers' = cTimers + 1
  /\ cLast' = "writeOk"
  /\ UNCHANGED <<cClicks, notCopyVars>>

\* lines 17-18: writeText rejected
WriteRejects ==
  /\ cWrites > 0
  /\ cWrites' = cWrites - 1
  /\ cCopied' = FALSE
  /\ cLast' = "writeFail"
  /\ UNCHANGED <<cTimers, cClicks, notCopyVars>>

\* the callback of line 16
TimerFires ==
  /\ cTimers > 0
  /\ cTimers' = cTimers - 1
  /\ cCopied' = FALSE
  /\ cLast' = "timer"
  /\ UNCHANGED <<cWrites, cClicks, notCopyVars>>

\* line 31: the label of the button
ButtonLabel == IF cCopied THEN "copied" ELSE "copy"

NextCopy ==
  \/ CopyClick
  \/ WriteResolves
  \/ WriteRejects
  \/ TimerFires

SpecCopy == InitCopy /\ [][NextCopy]_vars

\* A clipboard write settles and a timer that was set fires: the browser
\* runs every settled promise's continuation and every due timer.
FairSpecCopy ==
  /\ SpecCopy
  /\ WF_vars(WriteResolves \/ WriteRejects)
  /\ WF_vars(TimerFires)

(***************************************************************************)
(* Home, lines 188-191: fetchNewsSections and fetchStocks start every      *)
(* fetch at once, and the fetches settle one at a time in any order.  A    *)
(* settlement runs the rest of the async function and the reactions of the *)
(* Promise.all it feeds: no other settlement comes in between.             *)
(*                                                                         *)
(* What the servers answer.  The news server holds one item per query,     *)
(* whose words carry the index of the query; it answers with that item     *)
(* ("ok"), with that item behind an <item> that is never closed            *)
(* ("malformed"), or the call fails ("notOk", "netErr", "textErr").  The   *)
(* quote server holds the closes j, null, j + 1 for STOCKS entry j; it     *)
(* answers with them ("ok"), with a close that is no array                 *)
(* ("closeNotArray"), or the call fails ("notOk", "netErr", "jsonErr").    *)
(* Only the first MaxFlakyNews queries and the first MaxFlakyStocks        *)
(* symbols ever get another answer than "ok".                              *)
(***************************************************************************)
HomeNow == 2 * ONE_DAY_MS

QueryIndex(query) ==
  CHOOSE i \in 1..Len(NEWS_QUERIES) : NEWS_QUERIES[i].query = query

SymbolIndex(symbol) ==
  CHOOSE j \in 1..Len(STOCKS) : STOCKS[j].symbol = symbol

NewsReplies == {"ok", "malformed", "notOk", "netErr", "textErr"}
StockReplies ==
  {"ok", "notOk", "netErr", "jsonErr", "closeNotArray", "noResult"}

ServerXml(query, reply) ==
  IF reply = "malformed"
  THEN Chunk("torn", 0) \o Chunk("edge", QueryIndex(query))
  ELSE Chunk("edge", QueryIndex(query))

ServerJson(symbol, reply) ==
  IF reply \in {"closeNotArray", "noResult"}
  THEN [shape |-> reply, close |-> <<>>]
  ELSE [shape |-> "full",
        close |-> <<Num(SymbolIndex(symbol)), JsNull, Num(SymbolIndex(symbol) + 1)>>]

\* what the ghost field reply keeps of an answer
NewsReplyClass(reply) ==
  IF reply \in {"ok", "malformed"} THEN reply ELSE "failed"
StockReplyClass(reply) == IF reply = "ok" THEN "ok" ELSE "failed"

\* lines 104-108: the async arrow of fetchNewsSections
SectionOf(entry, p) ==
  IF p.state = "rejected" THEN Rejected
  ELSE Fulfilled([title |-> entry.title, query |-> entry.query, items |-> p.value])

\* the promise the async arrow of NEWS_QUERIES[i] returns, per answer
SectionPromises ==
  [i \in 1..Len(NEWS_QUERIES) |->
    [reply \in NewsReplies |->
      LET entry == NEWS_QUERIES[i]
          outcome == IF reply = "malformed" THEN "ok" ELSE reply
      IN SectionOf(entry, fetchGoogleNews(outcome,
                            ServerXml(entry.query, reply), HomeNow))]]

\* the promise fetchStock returns for STOCKS[j], per answer
QuotePromises ==
  [j \in 1..Len(STOCKS) |->
    [reply \in StockReplies |->
      LET s == STOCKS[j]
          outcome == IF reply \in {"closeNotArray", "noResult"} THEN "ok" ELSE reply
      IN fetchStock(outcome, ServerJson(s.symbol, reply),
                    s.symbol, s.name, s.currency)]]

\* the reaction of Home's Promise.all to an inner Promise.all that settled
HomeReacts(home, before, after, k) ==
  IF before.state = "pending" /\ after.state # "pending"
  THEN ElementSettles(home, k, PromiseOf(after))
  ELSE home

InitHome ==
  /\ HomeIdle
  /\ NewsIdle /\ StockIdle /\ BriefIdle /\ ScoreIdle /\ CopyIdle

notHomeVars == <<newsVars, stockVars, briefVars, scoreVars, copyVars>>

\* the fetch of NEWS_QUERIES[i] settles
NewsSettles(i) ==
  /\ hNews[i].reply = "none"
  /\ \E reply \in NewsReplies :
       /\ reply # "ok" => i <= MaxFlakyNews
       /\ LET p == SectionPromises[i][reply]
              all == ElementSettles(hSections, i, p)
          IN /\ hNews' = [hNews EXCEPT ![i] =
                            [promise |-> p, reply |-> NewsReplyClass(reply)]]
             /\ hSections' = all
             /\ hHome' = HomeReacts(hHome, hSections, all, 1)
  /\ UNCHANGED <<hStocks, hQuotes, hBrief, notHomeVars>>

\* the fetch of STOCKS[j] settles
StockSettles(j) ==
  /\ hStocks[j].reply = "none"
  /\ \E reply \in StockReplies :
       /\ reply # "ok" => j <= MaxFlakyStocks
       /\ LET p == QuotePromises[j][reply]
              all == ElementSettles(hQuotes, j, p)
          IN /\ hStocks' = [hStocks EXCEPT ![j] =
                              [promise |-> p, reply |-> StockReplyClass(reply)]]
             /\ hQuotes' = all
             /\ hHome' = HomeReacts(hHome, hQuotes, all, 2)
  /\ UNCHANGED <<hNews, hSections, hBrief, notHomeVars>>

\* lines 189-191: the await returns and the brief is built
HomeRenders ==
  /\ hHome.state = "fulfilled"
  /\ hBrief = <<>>
  /\ \E clock \in Clocks :
       hBrief' = buildBrief(hHome.values[1], hHome.values[2], clock)
  /\ UNCHANGED <<hNews, hStocks, hSections, hQuotes, hHome, notHomeVars>>

NextHome ==
  \/ \E i \in 1..Len(NEWS_QUERIES) : NewsSettles(i)
  \/ \E j \in 1..Len(STOCKS) : StockSettles(j)
  \/ HomeRenders

SpecHome == InitHome /\ [][NextHome]_vars

(***************************************************************************)
(* What the server's chunks are, read off the chunks themselves and not    *)
(* off the parser: the item a complete chunk describes and whether its     *)
(* published time lies within the window.  A torn chunk describes no item: *)
(* its <item> and junk are swallowed by the block that closes next.        *)
(***************************************************************************)
ChunkItem(kind, i) ==
  IF kind = "bare"
  THEN [title |-> <<"(no title)">>, link |-> <<"#">>,
        source |-> <<"Google News">>, publishedAt |-> <<>>]
  ELSE [title |-> <<Word("t", i)>>, link |-> <<Word("l", i)>>,
        source |-> <<Word("s", i % 2)>>,
        publishedAt |-> IF kind = "old" THEN <<DateOld>> ELSE <<DateEdge>>]

ChunkDated(kind) == kind \in {"old", "edge"}
ChunkMs(kind) == IF kind = "old" THEN 0 ELSE 24 * 60 * 60 * 1000
ChunkTooOld(kind, now) ==
  ChunkDated(kind) /\ now - ChunkMs(kind) > 24 * 60 * 60 * 1000

\* the positions of the chunks that are items and pass the filter, in order
PassingChunks(feed, now) ==
  SelectSeq([i \in 1..Len(feed) |-> i],
            LAMBDA i : feed[i] # "torn" /\ ~ChunkTooOld(feed[i], now))

NewsReturned == nRes = "ok" /\ nPromise.state = "fulfilled"

\* C1 as stated: every returned item has a published timestamp, and it is
\* at most 24 hours (ONE_DAY_MS) older than now.
C1_Original ==
  NewsReturned =>
    \A k \in 1..Len(nPromise.value) :
      LET ts == DateParse(nPromise.value[k].publishedAt)
      IN ~ts.nan /\ nNow - ts.ms <= 24 * 60 * 60 * 1000

\* C1 amended: every returned item whose pubDate parses to a timestamp is at
\* most 24 hours older than now, and every item of the feed whose published
\* timestamp is older than that is discarded; an item whose pubDate is missing
\* or unparseable is not discarded by the window (while fewer than 6 items are
\* returned, every undated item of the feed is among them).
C1_RecencyWindow ==
  NewsReturned =>
    LET items == nPromise.value
    IN /\ \A k \in 1..Len(items) :
            LET ts == DateParse(items[k].publishedAt)
            IN ts.nan \/ nNow - ts.ms <= 24 * 60 * 60 * 1000
       /\ \A i \in 1..Len(nFeed) :
            ChunkTooOld(nFeed[i], nNow) =>
              \A k \in 1..Len(items) : items[k].title # <<Word("t", i)>>
       /\ Len(items) < 6 =>
            Cardinality({k \in 1..Len(items) : items[k].publishedAt = <<>>})
              = Cardinality({i \in 1..Len(nFeed) : nFeed[i] = "bare"})

\* C1 witness: a feed with an item two days old and an item exactly 24 hours
\* old has been fetched, and the latter was returned.
C1_Witness ==
  /\ NewsReturned
  /\ \E i \in 1..Len(nFeed) : nFeed[i] = "old"
  /\ \E k \in 1..Len(nPromise.value) :
       /\ nPromise.value[k].publishedAt = <<DateEdge>>
       /\ nNow - ONE_DAY_MS = ONE_DAY_MS

\* C6: at most 6 items are returned, and they are exactly the first 6 (or all,
\* if fewer) item blocks of the feed that pass the recency filter, in feed
\* order, with the defaults "(no title)", "#" and "Google News" standing for a
\* missing title, link or source.
C6_CapAndOrder ==
  NewsReturned =>
    LET items == nPromise.value
        pass == PassingChunks(nFeed, nNow)
        n == IF Len(pass) < 6 THEN Len(pass) ELSE 6
    IN /\ Len(items) <= 6
       /\ Len(items) = n
       /\ \A k \in 1..n : items[k] = ChunkItem(nFeed[pass[k]], pass[k])

\* C6 witness: seven blocks pass the filter, one of them without any tag, and
\* six items were returned.
C6_Witness ==
  /\ NewsReturned
  /\ Len(PassingChunks(nFeed, nNow)) >= 7
  /\ \E i \in 1..6 : nFeed[i] = "bare"
  /\ \E i \in 1..6 : nFeed[i] = "edge"
  /\ Len(nPromise.value) = 6

(***************************************************************************)
(* The numeric closes of the body, read off the body by position.          *)
(***************************************************************************)
Max(S) == CHOOSE m \in S : \A k \in S : k <= m

NumericAt(body) ==
  IF body.shape = "full"
  THEN {k \in 1..Len(body.close) : body.close[k] # JsNull}
  ELSE {}

StockReturned == sRes = "ok" /\ sPromise.state = "fulfilled"

\* C2: with at least two numeric closes in the response, price is the last
\* numeric close, previousClose the numeric close before it (nulls skipped) and
\* changePct = (price - previousClose) / previousClose * 100 (as JavaScript
\* evaluates it: an exact quotient for a nonzero previous close, NaN or an
\* infinity for a zero one); with fewer than two, changePct is null.
C2_ChangePct ==
  StockReturned =>
    LET nums == NumericAt(sBody)
        q == sPromise.value
    IN IF Cardinality(nums) >= 2
       THEN LET last == Max(nums)
                prev == Max(nums \ {last})
                p == sBody.close[last].num
                c == sBody.close[prev].num
            IN /\ q.price = sBody.close[last]
               /\ q.previousClose = sBody.close[prev]
               /\ c # 0 => /\ q.changePct.kind = "finite"
                           /\ q.changePct.num * c = (p - c) * 100 * q.changePct.den
               /\ c = 0 => q.changePct.kind = (IF p = 0 THEN "NaN" ELSE "Infinity")
       ELSE q.changePct = JsNull

\* C2 witness: a series with a null between and after its numeric closes, and
\* a first close that differs from the previous close, has been quoted.
C2_Witness ==
  /\ StockReturned
  /\ sBody.shape = "full"
  /\ sBody.close = <<Num(3), JsNull, Num(1)>>
  /\ sPromise.value.changePct = Rat(-200, 3)

\* C8: on every path price, previousClose and changePct are all null or all
\* non-null.
C8_AllOrNone ==
  sPromise.state = "fulfilled" =>
    LET q == sPromise.value
    IN /\ (q.price = JsNull) = (q.previousClose = JsNull)
       /\ (q.price = JsNull) = (q.changePct = JsNull)

\* C8 witness: an OK response with exactly one numeric close was answered
\* with no price at all.
C8_Witness ==
  /\ StockReturned
  /\ Cardinality(NumericAt(sBody)) = 1
  /\ sPromise.value.price = JsNull
  /\ sPromise.value.changePct = JsNull

\* C9 as stated: whenever changePct is non-null, the previous close it was
\* divided by is nonzero and changePct is a finite number.
C9_AsClaimed ==
  sPromise.state = "fulfilled" /\ sPromise.value.changePct # JsNull =>
    /\ sPromise.value.previousClose # Num(0)
    /\ sPromise.value.changePct.kind = "finite"

(***************************************************************************)
(* The layout of a brief, by position: four lines of header, one line per  *)
(* stock, a blank, the news heading, then per section a heading, its item  *)
(* lines (or the placeholder) and a blank.                                 *)
(***************************************************************************)
Shown(section) == IF Len(section.items) < 3 THEN Len(section.items) ELSE 3
SectionHeight(section) == 2 + (IF Shown(section) = 0 THEN 1 ELSE Shown(section))

RECURSIVE HeightBefore(_, _)
HeightBefore(sections, i) ==
  IF i <= 1 THEN 0
  ELSE HeightBefore(sections, i - 1) + SectionHeight(sections[i - 1])

SectionStart(sections, stocks, i) == 6 + Len(stocks) + HeightBefore(sections, i) + 1

\* C5: the brief holds one stock line per stock in input order, and per section
\* in input order a heading followed by exactly its first min(3, n) items in
\* order, or by the single placeholder line exactly when it has no items; no
\* item beyond a section's third appears anywhere in the brief.
C5_BriefLayout ==
  bLines # <<>> =>
    /\ Len(bLines) = 6 + Len(bStocks) + HeightBefore(bSections, Len(bSections) + 1)
    /\ bLines[4] = <<"## Stocks 24h change">>
    /\ \A j \in 1..Len(bStocks) :
         /\ Len(bLines[4 + j]) = 8
         /\ bLines[4 + j][2] = bStocks[j].name
         /\ bLines[4 + j][4] = bStocks[j].symbol
    /\ bLines[5 + Len(bStocks)] = <<>>
    /\ bLines[6 + Len(bStocks)] = <<"## Key news">>
    /\ \A i \in 1..Len(bSections) :
         LET at == SectionStart(bSections, bStocks, i)
             sec == bSections[i]
         IN /\ bLines[at] = <<"### ", sec.title>>
            /\ \A k \in 1..Shown(sec) :
                 bLines[at + k] =
                   <<"- ", sec.items[k].title[1], " (", sec.items[k].source[1], ")">>
            /\ (bLines[at + 1] = <<"- no data available">>) = (Len(sec.items) = 0)
            /\ bLines[at + SectionHeight(sec) - 1] = <<>>
            /\ \A k \in 4..Len(sec.items) :
                 \A l \in 1..Len(bLines) :
                   \A c \in 1..Len(bLines[l]) : bLines[l][c] # sec.items[k].title[1]
    /\ Cardinality({l \in 1..Len(bLines) : bLines[l] = <<"- no data available">>})
         = Cardinality({i \in 1..Len(bSections) : Len(bSections[i].items) = 0})

\* C5 witness: a brief was built for two stocks, a section of four items and an
\* empty section.
C5_Witness ==
  /\ bLines # <<>>
  /\ Len(bStocks) = 2
  /\ Len(bSections) = 2
  /\ Len(bSections[1].items) = 4
  /\ Len(bSections[2].items) = 0

\* C10: signalScore is an integer in 0..100, is 0 exactly for the empty list,
\* is otherwise min(100, 12 * items + 8 * distinct sources), lies between 20
\* and 100 for a list of 1 to 6 items, and never decreases when an item is
\* appended.
C10_ScoreBounds ==
  /\ [](LET n == Len(gItems)
            u == Cardinality({gItems[i].source : i \in 1..n})
        IN /\ gScore \in 0..100
           /\ (gScore = 0) = (n = 0)
           /\ n > 0 => gScore = (IF 12 * n + 8 * u <= 100 THEN 12 * n + 8 * u ELSE 100)
           /\ n \in 1..6 => gScore \in 20..100)
  /\ [][gScore' >= gScore]_vars

\* C10 witness: a list of six items from four sources, whose raw score of 104
\* is cut to 100.
C10_Witness ==
  /\ Len(gItems) = 6
  /\ Cardinality({gItems[i].source : i \in 1..Len(gItems)}) = 4
  /\ gScore = 100

\* C7: a write that succeeds sets copied and schedules a reset, a write that
\* fails clears copied, copied is true only while a reset timer is pending, and
\* once the clicks have stopped copied eventually is false for good.
C7_CopyIndicator ==
  /\ [][cLast' = "writeOk" => cCopied' /\ cTimers' = cTimers + 1]_vars
  /\ [][cLast' = "writeFail" => ~cCopied']_vars
  /\ [](cCopied => cTimers >= 1)
  /\ <>[](~cCopied /\ cTimers = 0)

\* C7 witness: the label says copied while two reset timers are pending, the
\* second click having been made before the first timer fired.
C7_Witness ==
  /\ ButtonLabel = "copied"
  /\ cTimers >= 2
  /\ cLast = "writeOk"

(***************************************************************************)
(* What the servers of Home hold, read off the configuration: the item of  *)
(* query i and the quote of symbol j.                                      *)
(***************************************************************************)
HeldItem(i) ==
  [title |-> <<Word("t", i)>>, link |-> <<Word("l", i)>>,
   source |-> <<Word("s", i % 2)>>, publishedAt |-> <<DateEdge>>]

NoRejection ==
  /\ \A i \in 1..7 : hNews[i].promise.state # "rejected"
  /\ \A j \in 1..8 : hStocks[j].promise.state # "rejected"
  /\ hSections.state # "rejected"
  /\ hQuotes.state # "rejected"
  /\ hHome.state # "rejected"

StockDefaults ==
  \A j \in 1..8 :
    hStocks[j].reply = "failed" =>
      /\ hStocks[j].promise.state = "fulfilled"
      /\ hStocks[j].promise.value =
           [symbol |-> STOCKS[j].symbol, name |-> STOCKS[j].name,
            currency |-> STOCKS[j].currency, price |-> JsNull,
            previousClose |-> JsNull, changePct |-> JsNull]

\* C3 as stated: after a non-OK status, a network exception, an unreadable
\* body or a malformed body, fetchGoogleNews resolves to the empty list and
\* fetchStock to its arguments with null price, previousClose and changePct,
\* and no promise of Home is ever rejected.
C3_Original ==
  /\ \A i \in 1..7 :
       hNews[i].reply \in {"failed", "malformed"} =>
         /\ hNews[i].promise.state = "fulfilled"
         /\ hNews[i].promise.value.items = <<>>
  /\ StockDefaults
  /\ NoRejection

\* C3 amended: after a non-OK status, a network exception or an unreadable
\* body fetchGoogleNews resolves to the empty list, while a body that is not
\* well-formed is no failure to it: it resolves to the items of the
\* <item>...</item> spans the body holds; fetchStock resolves to its arguments
\* with null price, previousClose and changePct after a non-OK status, an
\* exception, or an unreadable or malformed body; no promise of Home is ever
\* rejected.
C3_FailureDefaults ==
  /\ \A i \in 1..7 :
       /\ hNews[i].reply = "failed" =>
            /\ hNews[i].promise.state = "fulfilled"
            /\ hNews[i].promise.value.items = <<>>
       /\ hNews[i].reply = "malformed" =>
            /\ hNews[i].promise.state = "fulfilled"
            /\ hNews[i].promise.value.items = <<HeldItem(i)>>
  /\ StockDefaults
  /\ NoRejection

\* C3 witness: a news fetch and a stock fetch have failed and Home's
\* Promise.all is fulfilled.
C3_Witness ==
  /\ hNews[1].reply = "failed"
  /\ hStocks[1].reply = "failed"
  /\ hHome.state = "fulfilled"

\* C4: whatever the order in which the fetches settle and whichever fail, the
\* sections are one per NEWS_QUERIES entry (7), in configuration order, each
\* with its entry's title and query and only items of its own query, and the
\* stocks are one per STOCKS entry (8), in configuration order, each with its
\* entry's symbol, name and currency; an entry whose own fetch succeeded holds
\* exactly what its server holds, whatever happened to the other fetches.
C4_FixedWatchlist ==
  /\ Len(NEWS_QUERIES) = 7 /\ Len(STOCKS) = 8
  /\ Len(hSections.values) = 7 /\ Len(hQuotes.values) = 8
  /\ \A i \in 1..7 :
       /\ (hSections.values[i] = Hole) = (hNews[i].reply = "none")
       /\ hSections.values[i] # Hole =>
            LET sec == hSections.values[i]
            IN /\ sec.title = NEWS_QUERIES[i].title
               /\ sec.query = NEWS_QUERIES[i].query
               /\ \A k \in 1..Len(sec.items) : sec.items[k].title = <<Word("t", i)>>
               /\ hNews[i].reply = "ok" => sec.items = <<HeldItem(i)>>
  /\ \A j \in 1..8 :
       /\ (hQuotes.values[j] = Hole) = (hStocks[j].reply = "none")
       /\ hQuotes.values[j] # Hole =>
            LET q == hQuotes.values[j]
            IN /\ q.symbol = STOCKS[j].symbol
               /\ q.name = STOCKS[j].name
               /\ q.currency = STOCKS[j].currency
               /\ hStocks[j].reply = "ok" =>
                    /\ q.price = Num(j + 1)
                    /\ q.previousClose = Num(j)
  /\ hSections.state = "fulfilled" => \A i \in 1..7 : hNews[i].reply # "none"
  /\ hQuotes.state = "fulfilled" => \A j \in 1..8 : hStocks[j].reply # "none"
  /\ hHome.state = "fulfilled" =>
       hHome.values = <<hSections.values, hQuotes.values>>

\* C4 witness: the sections are complete, the first query having failed, while
\* the last stock has settled before the first one.
C4_Witness ==
  /\ hSections.state = "fulfilled"
  /\ hNews[1].reply = "failed"
  /\ hStocks[8].reply = "ok"
  /\ hStocks[1].reply = "none"

=============================================================================
